---- MODULE Spec2Model ----
(***************************************************************************)
(* Model of the attribute macro `macro_derive` of type-macro-derive-tricks *)
(* (src/src/lib.rs): the expansion of the annotated declarations of a      *)
(* crate, one after the other.  The attribute's arguments are parsed into  *)
(* trait paths by parse_derive_traits.  Macro invocations in type position *)
(* are collected into a map from the macro type to a random alias name,    *)
(* one alias item is generated per map entry, the field types are          *)
(* rewritten to name the aliases, and the items are combined into the      *)
(* output.                                                                 *)
(***************************************************************************)
EXTENDS Integers, Sequences, FiniteSets, TLC

(***************************************************************************)
(* Bounds of the model.                                                    *)
(***************************************************************************)
\* how many different suffixes the random source can produce
NumNames == 2
\* generic parameters of a declaration
MaxGenerics == 3
\* fields of a struct, a union or an enum variant; variants of an enum
MaxFields == 2
\* nesting depth of the wrappers around a macro invocation
MaxDepth == 3
\* pieces (a comma, a trait path, a stray token) of an argument list
MaxArgs == 4

(***************************************************************************)
(* proc_macro2 token trees: the argument tokens of a macro invocation.     *)
(***************************************************************************)
Ident(s) == [tt |-> "Ident", s |-> s, stream |-> <<>>]

Punct(c) == [tt |-> "Punct", s |-> c, stream |-> <<>>]

Literal(s) == [tt |-> "Literal", s |-> s, stream |-> <<>>]

Group(delimiter, stream) == [tt |-> "Group", s |-> delimiter, stream |-> stream]

(***************************************************************************)
(* syn::Type: the shapes the two passes tell apart, and three of the       *)
(* shapes that fall into their `_ => {}` arm (a function pointer, a        *)
(* parenthesized type, a trait object).                                    *)
(***************************************************************************)
TypeMacro(path, tokens) == [k |-> "Macro", path |-> path, tokens |-> tokens]

NoArguments == [pa |-> "None", args |-> <<>>]

AngleBracketed(args) == [pa |-> "AngleBracketed", args |-> args]

PathSegment(ident, arguments) == [ident |-> ident, arguments |-> arguments]

TypePath(segments) == [k |-> "Path", segments |-> segments]

ArgType(ty) == [ga |-> "Type", ty |-> ty]

ArgLifetime(lifetime) == [ga |-> "Lifetime", lifetime |-> lifetime]

\* an associated-type binding `Item = ty`: a generic argument that is not
\* GenericArgument::Type
ArgAssocType(ident, ty) == [ga |-> "AssocType", ident |-> ident, ty |-> ty]

TypeArray(elem, len) == [k |-> "Array", elem |-> elem, len |-> len]

TypePtr(elem) == [k |-> "Ptr", elem |-> elem]

TypeReference(lifetime, elem) == [k |-> "Reference", lifetime |-> lifetime, elem |-> elem]

TypeSlice(elem) == [k |-> "Slice", elem |-> elem]

TypeTuple(elems) == [k |-> "Tuple", elems |-> elems]

TypeBareFn(inputs, output) == [k |-> "BareFn", inputs |-> inputs, output |-> output]

TypeParen(elem) == [k |-> "Paren", elem |-> elem]

\* `dyn A + B`: each bound is written as the path of its trait
TypeTraitObject(bounds) == [k |-> "TraitObject", bounds |-> bounds]

\* a path of one segment without arguments: `T`, `i32`
Plain(ident) == TypePath(<<PathSegment(ident, NoArguments)>>)

(***************************************************************************)
(* syn::GenericParam.  `ident` is the name without the lifetime sigil.     *)
(***************************************************************************)
LifetimeParam(ident, bounds) ==
    [kind |-> "Lifetime", ident |-> ident, bounds |-> bounds, ty |-> "",
     eq_token |-> FALSE, default |-> "None"]

TypeParam(ident, bounds, default) ==
    [kind |-> "Type", ident |-> ident, bounds |-> bounds, ty |-> "",
     eq_token |-> default # "None", default |-> default]

ConstParam(ident, ty, default) ==
    [kind |-> "Const", ident |-> ident, bounds |-> <<>>, ty |-> ty,
     eq_token |-> default # "None", default |-> default]

(***************************************************************************)
(* syn::Data and syn::Fields.  A field is [ident, ty]; a tuple field has   *)
(* the ident "".                                                           *)
(***************************************************************************)
Field(ident, ty) == [ident |-> ident, ty |-> ty]

FieldsNamed(list) == [style |-> "Named", list |-> list]

FieldsUnnamed(list) == [style |-> "Unnamed", list |-> list]

FieldsUnit == [style |-> "Unit", list |-> <<>>]

Variant(ident, fields) == [ident |-> ident, fields |-> fields]

DataStruct(fields) == [kind |-> "Struct", fields |-> fields, variants |-> <<>>]

DataEnum(variants) == [kind |-> "Enum", fields |-> FieldsUnit, variants |-> variants]

\* a union holds FieldsNamed
DataUnion(fields) == [kind |-> "Union", fields |-> fields, variants |-> <<>>]

\* generics.params is `generics`, generics.where_clause is `where_clause`,
\* the tokens of its predicates
DeriveInput(ident, generics, data) ==
    [ident |-> ident, generics |-> generics, where_clause |-> <<>>, data |-> data]

\* the declaration with a where-clause
Where(input, predicates) == [input EXCEPT !.where_clause = predicates]

(***************************************************************************)
(* Step 1, the find pass.  Each operator returns, in the order of the      *)
(* traversal, the macro types at which collect_macro_types_from_type       *)
(* reaches its `if let Type::Macro(_) = ty` arm; the action Register below *)
(* is that arm.                                                            *)
(***************************************************************************)
\* the GenericArgument::Type arguments of one path segment, left to right
SegmentTypeArgs(segment) ==
    IF segment.arguments.pa = "AngleBracketed"
    THEN LET typed == SelectSeq(segment.arguments.args, LAMBDA arg: arg.ga = "Type")
         IN  [i \in 1..Len(typed) |-> typed[i].ty]
    ELSE <<>>

RECURSIVE PathTypeArgs(_)
\* the nested types of a path: for each segment, for each type argument
PathTypeArgs(segments) ==
    IF segments = <<>> THEN <<>>
    ELSE SegmentTypeArgs(Head(segments)) \o PathTypeArgs(Tail(segments))

RECURSIVE collect_macro_types_from_type(_)
RECURSIVE CollectEach(_)
\* a `for` loop over nested types
CollectEach(tys) ==
    IF tys = <<>> THEN <<>>
    ELSE collect_macro_types_from_type(Head(tys)) \o CollectEach(Tail(tys))

RECURSIVE MacroShaped(_)
\* what is written like a macro invocation in a token stream, at any depth:
\* an identifier, `!`, a group
MacroShaped(tokens) ==
    IF tokens = <<>> THEN <<>>
    ELSE LET here == IF /\ Len(tokens) >= 3
                        /\ tokens[1].tt = "Ident"
                        /\ tokens[2] = Punct("!")
                        /\ tokens[3].tt = "Group"
                     THEN <<TypeMacro(tokens[1].s, tokens[3].stream)>>
                     ELSE <<>>
             inside == IF tokens[1].tt = "Group" THEN MacroShaped(tokens[1].stream) ELSE <<>>
         IN  here \o inside \o MacroShaped(Tail(tokens))

\* a find pass that goes on into the arguments of a macro invocation
collect_into_arguments(ty) ==
    IF ty.k = "Macro" THEN <<ty>> \o MacroShaped(ty.tokens)
    ELSE CASE ty.k = "Path" -> CollectEach(PathTypeArgs(ty.segments))
           [] ty.k = "Array" -> collect_macro_types_from_type(ty.elem)
           [] ty.k = "Ptr" -> collect_macro_types_from_type(ty.elem)
           [] ty.k = "Reference" -> collect_macro_types_from_type(ty.elem)
           [] ty.k = "Slice" -> collect_macro_types_from_type(ty.elem)
           [] ty.k = "Tuple" -> CollectEach(ty.elems)
           [] OTHER -> <<>>

\* a find pass that descends into parenthesized types
collect_into_parens(ty) ==
    IF ty.k = "Macro" THEN <<ty>>
    ELSE CASE ty.k = "Path" -> CollectEach(PathTypeArgs(ty.segments))
           [] ty.k = "Array" -> collect_macro_types_from_type(ty.elem)
           [] ty.k = "Ptr" -> collect_macro_types_from_type(ty.elem)
           [] ty.k = "Reference" -> collect_macro_types_from_type(ty.elem)
           [] ty.k = "Slice" -> collect_macro_types_from_type(ty.elem)
           [] ty.k = "Tuple" -> CollectEach(ty.elems)
           [] ty.k = "Paren" -> collect_macro_types_from_type(ty.elem)
           [] OTHER -> <<>>

\* a find pass that does not descend into slices
collect_skipping_slices(ty) ==
    IF ty.k = "Macro" THEN <<ty>>
    ELSE CASE ty.k = "Path" -> CollectEach(PathTypeArgs(ty.segments))
           [] ty.k = "Array" -> collect_macro_types_from_type(ty.elem)
           [] ty.k = "Ptr" -> collect_macro_types_from_type(ty.elem)
           [] ty.k = "Reference" -> collect_macro_types_from_type(ty.elem)
           [] ty.k = "Tuple" -> CollectEach(ty.elems)
           [] OTHER -> <<>>

collect_macro_types_from_type(ty) ==
    IF ty.k = "Macro" THEN <<ty>>
    ELSE CASE ty.k = "Path" -> CollectEach(PathTypeArgs(ty.segments))
           [] ty.k = "Array" -> collect_macro_types_from_type(ty.elem)
           [] ty.k = "Ptr" -> collect_macro_types_from_type(ty.elem)
           [] ty.k = "Reference" -> collect_macro_types_from_type(ty.elem)
           [] ty.k = "Slice" -> collect_macro_types_from_type(ty.elem)
           [] ty.k = "Tuple" -> CollectEach(ty.elems)
           [] OTHER -> <<>>

collect_macro_types_from_fields(fields) ==
    CASE fields.style = "Named" ->
             CollectEach([i \in 1..Len(fields.list) |-> fields.list[i].ty])
      [] fields.style = "Unnamed" ->
             CollectEach([i \in 1..Len(fields.list) |-> fields.list[i].ty])
      [] fields.style = "Unit" -> <<>>

RECURSIVE CollectVariants(_)
CollectVariants(variants) ==
    IF variants = <<>> THEN <<>>
    ELSE collect_macro_types_from_fields(Head(variants).fields)
             \o CollectVariants(Tail(variants))

collect_macro_types(data) ==
    CASE data.kind = "Struct" -> collect_macro_types_from_fields(data.fields)
      [] data.kind = "Enum" -> CollectVariants(data.variants)
      [] data.kind = "Union" -> collect_macro_types_from_fields(FieldsNamed(data.fields.list))

(***************************************************************************)
(* Name generation: the prefix and 12 random alphanumeric characters.  A   *)
(* draw is one outcome of the random source; the model tells NumNames      *)
(* outcomes apart.                                                         *)
(***************************************************************************)
Alphanumeric == <<"A", "b", "7", "Z", "q", "0", "x", "3">>

SuffixLen == 12

RECURSIVE Repeat(_, _)
Repeat(c, n) == IF n = 0 THEN "" ELSE c \o Repeat(c, n - 1)

random_suffix(draw) == Repeat("A", SuffixLen - 1) \o Alphanumeric[draw]

Draws == 1..NumNames

generate_random_type_name(draw) == "__TypeMacroAlias" \o random_suffix(draw)

(***************************************************************************)
(* The parameter-usage analysis.                                           *)
(***************************************************************************)
RECURSIVE is_generic_param_used_in_token_stream(_, _)
RECURSIVE TokenLoop(_, _, _)
RECURSIVE TokenLoopNoGroups(_, _, _)
RECURSIVE TokenLoopLiterals(_, _, _)
RECURSIVE TokenLoopBareLifetime(_, _, _)
\* a search that takes a string literal spelled like the name for the name
TokenLoopLiterals(tokens_vec, identifier, i) ==
    IF i > Len(tokens_vec) THEN FALSE
    ELSE LET token == tokens_vec[i]
             found ==
                 CASE token.tt = "Ident" -> token.s = identifier
                   [] token.tt = "Group" ->
                          is_generic_param_used_in_token_stream(token.stream, identifier)
                   [] token.tt = "Punct" ->
                          /\ token.s = "'"
                          /\ i < Len(tokens_vec)
                          /\ tokens_vec[i + 1].tt = "Ident"
                          /\ ("'" \o tokens_vec[i + 1].s) = identifier
                   [] token.tt = "Literal" -> token.s = ("\"" \o identifier \o "\"")
         IN  IF found THEN TRUE ELSE TokenLoopLiterals(tokens_vec, identifier, i + 1)

\* a search that takes a bare identifier for the lifetime of that name
TokenLoopBareLifetime(tokens_vec, identifier, i) ==
    IF i > Len(tokens_vec) THEN FALSE
    ELSE LET token == tokens_vec[i]
             found ==
                 CASE token.tt = "Ident" ->
                          token.s = identifier \/ ("'" \o token.s) = identifier
                   [] token.tt = "Group" ->
                          is_generic_param_used_in_token_stream(token.stream, identifier)
                   [] token.tt = "Punct" -> FALSE
                   [] token.tt = "Literal" -> FALSE
         IN  IF found THEN TRUE ELSE TokenLoopBareLifetime(tokens_vec, identifier, i + 1)

\* a search that does not look inside groups
TokenLoopNoGroups(tokens_vec, identifier, i) ==
    IF i > Len(tokens_vec) THEN FALSE
    ELSE LET token == tokens_vec[i]
             found ==
                 CASE token.tt = "Ident" -> token.s = identifier
                   [] token.tt = "Punct" ->
                          /\ token.s = "'"
                          /\ i < Len(tokens_vec)
                          /\ tokens_vec[i + 1].tt = "Ident"
                          /\ ("'" \o tokens_vec[i + 1].s) = identifier
                   [] OTHER -> FALSE
         IN  IF found THEN TRUE ELSE TokenLoopNoGroups(tokens_vec, identifier, i + 1)

\* the loop `for (i, token) in tokens_vec.iter().enumerate()` from the i-th
\* token on (i counts from 1 here, so the code's i + 1 < len is i < Len)
TokenLoop(tokens_vec, identifier, i) ==
    IF i > Len(tokens_vec) THEN FALSE
    ELSE LET token == tokens_vec[i]
             found ==
                 CASE token.tt = "Ident" -> token.s = identifier
                   [] token.tt = "Group" ->
                          is_generic_param_used_in_token_stream(token.stream, identifier)
                   [] token.tt = "Punct" ->
                          /\ token.s = "'"
                          /\ i < Len(tokens_vec)
                          /\ tokens_vec[i + 1].tt = "Ident"
                          /\ ("'" \o tokens_vec[i + 1].s) = identifier
                   [] token.tt = "Literal" -> FALSE
         IN  IF found THEN TRUE ELSE TokenLoop(tokens_vec, identifier, i + 1)

is_generic_param_used_in_token_stream(tokens, identifier) == TokenLoop(tokens, identifier, 1)

\* the name a parameter is searched under: a lifetime prints with its sigil
param_name(param) ==
    CASE param.kind = "Type" -> param.ident
      [] param.kind = "Lifetime" -> "'" \o param.ident
      [] param.kind = "Const" -> param.ident

\* a filter that lists the used parameters last to first
get_used_generic_params_reversed(macro_type, generics) ==
    IF macro_type.k = "Macro"
    THEN LET used == SelectSeq(generics,
                               LAMBDA param:
                                   is_generic_param_used_in_token_stream(macro_type.tokens,
                                                                         param_name(param)))
         IN  [i \in 1..Len(used) |-> used[Len(used) + 1 - i]]
    ELSE <<>>

\* no filter: every parameter of the declaration
get_all_generic_params(macro_type, generics) == generics

get_used_generic_params(macro_type, generics) ==
    IF macro_type.k = "Macro"
    THEN SelectSeq(generics,
                   LAMBDA param:
                       is_generic_param_used_in_token_stream(macro_type.tokens,
                                                             param_name(param)))
    ELSE <<>>

\* a syn::Generics holding the used parameters and nothing else
create_filtered_generics(used_params) == [params |-> used_params, where_clause |-> "None"]

(***************************************************************************)
(* Step 2: the alias item of one map entry.                                *)
(***************************************************************************)
\* only type parameters lose their default
StripDefaultOfTypes(param) ==
    CASE param.kind = "Type" -> [param EXCEPT !.eq_token = FALSE, !.default = "None"]
      [] OTHER -> param

\* the `.map(|mut param| ...)` over the filtered parameters
StripDefault(param) ==
    CASE param.kind = "Type" -> [param EXCEPT !.eq_token = FALSE, !.default = "None"]
      [] param.kind = "Const" -> [param EXCEPT !.eq_token = FALSE, !.default = "None"]
      [] OTHER -> param

\* an alias item written `pub type`
ItemTypePub(alias_name, generics, ty) ==
    [item |-> "Type", attrs |-> <<"doc(hidden)">>, vis |-> "Public",
     ident |-> alias_name, generics |-> generics, ty |-> ty]

\* `#[doc(hidden)] type alias_name <generics> = ty;`, generics <<>> standing
\* for an item written without a parameter list
ItemType(alias_name, generics, ty) ==
    [item |-> "Type", attrs |-> <<"doc(hidden)">>, vis |-> "Inherited",
     ident |-> alias_name, generics |-> generics, ty |-> ty]

type_alias(macro_type, alias_name, generics) ==
    LET used_generic_params == get_used_generic_params(macro_type, generics)
    IN  IF used_generic_params = <<>>
        THEN ItemType(alias_name, <<>>, macro_type)
        ELSE LET filtered_generics == create_filtered_generics(used_generic_params).params
             IN  ItemType(alias_name,
                          [i \in 1..Len(filtered_generics) |->
                              StripDefault(filtered_generics[i])],
                          macro_type)

\* a loop that stops after its first iteration
UnvisitedFirstOnly(macro_types, type_aliases) ==
    IF type_aliases = <<>> THEN DOMAIN macro_types ELSE {}

\* the map entries the loop `for (macro_type, alias_name) in &macro_types`
\* has not reached yet; a HashMap hands its entries out in no specified
\* order, each once
Unvisited(macro_types, type_aliases) ==
    DOMAIN macro_types \ {type_aliases[i].ty : i \in 1..Len(type_aliases)}

(***************************************************************************)
(* Step 3, the rewrite pass.                                               *)
(***************************************************************************)
\* the names in the order of the parameter list
ty_generics_in_order(filtered_generics) ==
    LET params == filtered_generics.params
    IN  [i \in 1..Len(params) |->
            IF params[i].kind = "Lifetime"
            THEN ArgLifetime("'" \o params[i].ident)
            ELSE ArgType(Plain(params[i].ident))]

\* the names of the lifetimes and of the type parameters, no const parameter
ty_generics_without_consts(filtered_generics) ==
    LET params == filtered_generics.params
        lifetimes == SelectSeq(params, LAMBDA param: param.kind = "Lifetime")
        others == SelectSeq(params, LAMBDA param: param.kind = "Type")
    IN  [i \in 1..Len(lifetimes) |-> ArgLifetime("'" \o lifetimes[i].ident)]
            \o [i \in 1..Len(others) |-> ArgType(Plain(others[i].ident))]

\* split_for_impl's TypeGenerics as written to tokens: the lifetimes first,
\* then the type and const parameters, each by its name alone, and nothing
\* at all for an empty parameter list
ty_generics(filtered_generics) ==
    LET params == filtered_generics.params
        lifetimes == SelectSeq(params, LAMBDA param: param.kind = "Lifetime")
        others == SelectSeq(params, LAMBDA param: param.kind # "Lifetime")
    IN  [i \in 1..Len(lifetimes) |-> ArgLifetime("'" \o lifetimes[i].ident)]
            \o [i \in 1..Len(others) |-> ArgType(Plain(others[i].ident))]

\* parse_quote!(#alias) and parse_quote!(#alias #ty_generics)
alias_path(alias, args) ==
    TypePath(<<PathSegment(alias, IF args = <<>> THEN NoArguments ELSE AngleBracketed(args))>>)

RECURSIVE transform_type(_, _, _)
RECURSIVE TransformEach(_, _, _)
\* a loop over nested types that rewrites the first and leaves the rest
TransformFirst(tys, macro_types, generics) ==
    [i \in 1..Len(tys) |-> IF i = 1 THEN transform_type(tys[i], macro_types, generics) ELSE tys[i]]

TransformEach(tys, macro_types, generics) ==
    [i \in 1..Len(tys) |-> transform_type(tys[i], macro_types, generics)]

TransformArg(arg, macro_types, generics) ==
    IF arg.ga = "Type"
    THEN [arg EXCEPT !.ty = transform_type(arg.ty, macro_types, generics)]
    ELSE arg

\* a rewrite that rebuilds a segment from its type arguments alone
TransformSegmentTypeArgsOnly(segment, macro_types, generics) ==
    IF segment.arguments.pa = "AngleBracketed"
    THEN LET typed == SelectSeq(segment.arguments.args, LAMBDA arg: arg.ga = "Type")
         IN  [segment EXCEPT !.arguments.args =
                 [i \in 1..Len(typed) |-> TransformArg(typed[i], macro_types, generics)]]
    ELSE segment

TransformSegment(segment, macro_types, generics) ==
    IF segment.arguments.pa = "AngleBracketed"
    THEN [segment EXCEPT !.arguments.args =
             [i \in 1..Len(segment.arguments.args) |->
                 TransformArg(segment.arguments.args[i], macro_types, generics)]]
    ELSE segment

\* a rewrite of the macro invocations that are a whole field type only
transform_type_top_level(ty, macro_types, generics) ==
    IF ty.k = "Macro" /\ ty \in DOMAIN macro_types
    THEN alias_path(macro_types[ty],
                    ty_generics(create_filtered_generics(get_used_generic_params(ty, generics))))
    ELSE ty

transform_type(ty, macro_types, generics) ==
    IF ty.k = "Macro"
    THEN IF ty \in DOMAIN macro_types
         THEN LET alias == macro_types[ty]
                  used_generic_params == get_used_generic_params(ty, generics)
              IN  IF used_generic_params = <<>>
                  THEN alias_path(alias, <<>>)
                  ELSE alias_path(alias,
                                  ty_generics(create_filtered_generics(used_generic_params)))
         ELSE ty
    ELSE CASE ty.k = "Path" ->
                  [ty EXCEPT !.segments =
                      [i \in 1..Len(ty.segments) |->
                          TransformSegment(ty.segments[i], macro_types, generics)]]
           [] ty.k = "Array" ->
                  [ty EXCEPT !.elem = transform_type(ty.elem, macro_types, generics)]
           [] ty.k = "Ptr" ->
                  [ty EXCEPT !.elem = transform_type(ty.elem, macro_types, generics)]
           [] ty.k = "Reference" ->
                  [ty EXCEPT !.elem = transform_type(ty.elem, macro_types, generics)]
           [] ty.k = "Slice" ->
                  [ty EXCEPT !.elem = transform_type(ty.elem, macro_types, generics)]
           [] ty.k = "Tuple" ->
                  [ty EXCEPT !.elems = TransformEach(ty.elems, macro_types, generics)]
           [] OTHER -> ty

\* a rewrite that hands the fields back last to first
transform_fields_reversed(fields, macro_types, generics) ==
    IF fields.style = "Unit" THEN fields
    ELSE [fields EXCEPT !.list =
             [i \in 1..Len(fields.list) |->
                 [fields.list[Len(fields.list) + 1 - i] EXCEPT !.ty =
                     transform_type(fields.list[Len(fields.list) + 1 - i].ty,
                                    macro_types, generics)]]]

transform_fields(fields, macro_types, generics) ==
    CASE fields.style = "Named" ->
             [fields EXCEPT !.list =
                 [i \in 1..Len(fields.list) |->
                     [fields.list[i] EXCEPT !.ty =
                         transform_type(fields.list[i].ty, macro_types, generics)]]]
      [] fields.style = "Unnamed" ->
             [fields EXCEPT !.list =
                 [i \in 1..Len(fields.list) |->
                     [fields.list[i] EXCEPT !.ty =
                         transform_type(fields.list[i].ty, macro_types, generics)]]]
      [] fields.style = "Unit" -> fields

\* a rewrite that leaves unions as they are
transform_input_skipping_unions(input, macro_types) ==
    CASE input.data.kind = "Struct" ->
             [input EXCEPT !.data.fields =
                 transform_fields(input.data.fields, macro_types, input.generics)]
      [] input.data.kind = "Enum" ->
             [input EXCEPT !.data.variants =
                 [i \in 1..Len(input.data.variants) |->
                     [input.data.variants[i] EXCEPT !.fields =
                         transform_fields(input.data.variants[i].fields, macro_types,
                                          input.generics)]]]
      [] input.data.kind = "Union" -> input

transform_input(input, macro_types) ==
    CASE input.data.kind = "Struct" ->
             [input EXCEPT !.data.fields =
                 transform_fields(input.data.fields, macro_types, input.generics)]
      [] input.data.kind = "Enum" ->
             [input EXCEPT !.data.variants =
                 [i \in 1..Len(input.data.variants) |->
                     [input.data.variants[i] EXCEPT !.fields =
                         transform_fields(input.data.variants[i].fields, macro_types,
                                          input.generics)]]]
      [] input.data.kind = "Union" ->
             LET fields == transform_fields(FieldsNamed(input.data.fields.list),
                                            macro_types, input.generics)
             IN  IF fields.style = "Named"
                 THEN [input EXCEPT !.data.fields = fields]
                 ELSE input

(***************************************************************************)
(* Steps 4 and 5: the derive attribute and the combined output, a sequence *)
(* of items.                                                               *)
(***************************************************************************)
\* one attribute for each trait
derive_attrs_one_each(derive_traits) ==
    [i \in 1..Len(derive_traits) |-> [item |-> "DeriveAttr", traits |-> <<derive_traits[i]>>]]

derive_attrs(derive_traits) ==
    IF derive_traits # <<>>
    THEN <<[item |-> "DeriveAttr", traits |-> derive_traits]>>
    ELSE <<>>

ItemDeclaration(transformed_input) == [item |-> "Declaration", decl |-> transformed_input]

\* the derive attribute written first
CombineAttrsFirst(type_aliases, attrs, transformed_input) ==
    attrs \o type_aliases \o <<ItemDeclaration(transformed_input)>>

Combine(type_aliases, attrs, transformed_input) ==
    type_aliases \o attrs \o <<ItemDeclaration(transformed_input)>>

(***************************************************************************)
(* The attribute's arguments.  parse_derive_traits builds each candidate   *)
(* as a String and hands it to syn::parse_str.  A String is represented    *)
(* here by the token trees its text reads back as, which is what the       *)
(* parser sees of it.                                                      *)
(***************************************************************************)
Comma == Punct(",")

\* token.to_string(): an identifier or a punctuation character prints as
\* itself, a group prints its delimiters around its tokens
to_string(token) == <<token>>

\* current_trait.push_str(text): nothing is written between the two texts,
\* so an identifier ending the one and an identifier starting the other
\* read back as one longer identifier
push_str(current_trait, text) ==
    LET n == Len(current_trait)
    IN  IF n > 0 /\ text # <<>>
            /\ current_trait[n].tt = "Ident" /\ text[1].tt = "Ident"
        THEN SubSeq(current_trait, 1, n - 1)
                 \o <<Ident(current_trait[n].s \o text[1].s)>>
                 \o Tail(text)
        ELSE current_trait \o text

\* every other token of the stream is an identifier, the rest are commas
IsIdentList(stream) ==
    /\ Len(stream) % 2 = 1
    /\ \A i \in 1..Len(stream) :
           IF i % 2 = 1 THEN stream[i].tt = "Ident" ELSE stream[i] = Comma

\* the number of tokens of the generic argument at position i, 0 if none:
\* a type name, a lifetime or a tuple of type names
GenericArgumentLen(text, i) ==
    IF i > Len(text) THEN 0
    ELSE IF text[i].tt = "Ident" THEN 1
    ELSE IF text[i].tt = "Group"
         THEN IF text[i].s = "Parenthesis" /\ IsIdentList(text[i].stream) THEN 1 ELSE 0
    ELSE IF text[i] = Punct("'") /\ i + 1 <= Len(text) /\ text[i + 1].tt = "Ident" THEN 2
    ELSE 0

RECURSIVE PathSegments(_, _)
\* the text from position i on is segments separated by `::`, each an
\* identifier with at most one `<...>` after it, and nothing else
PathSegments(text, i) ==
    IF i > Len(text) \/ text[i].tt # "Ident" THEN FALSE
    ELSE LET arg == GenericArgumentLen(text, i + 2)
             end == IF i + 1 <= Len(text) /\ text[i + 1] = Punct("<")
                    THEN IF arg > 0 /\ i + 2 + arg <= Len(text)
                                    /\ text[i + 2 + arg] = Punct(">")
                         THEN i + 3 + arg
                         ELSE 0
                    ELSE i + 1
         IN  IF end = 0 THEN FALSE
             ELSE IF end > Len(text) THEN TRUE
             ELSE /\ end + 1 <= Len(text)
                  /\ text[end] = Punct(":")
                  /\ text[end + 1] = Punct(":")
                  /\ PathSegments(text, end + 2)

\* syn::parse_str::<syn::Path>: the whole text must be one path
parse_str(text) ==
    LET leading_colon == Len(text) >= 2 /\ text[1] = Punct(":") /\ text[2] = Punct(":")
    IN  IF PathSegments(text, IF leading_colon THEN 3 ELSE 1)
        THEN [ok |-> TRUE, path |-> text]
        ELSE [ok |-> FALSE, path |-> <<>>]

\* `if let Ok(path) = parse_str(...) { traits.push(path); }`
PushIfOk(traits, current_trait) ==
    IF parse_str(current_trait).ok
    THEN Append(traits, parse_str(current_trait).path)
    ELSE traits

RECURSIVE TraitLoop(_, _, _, _)
\* the loop over the argument token trees from position i on, then the
\* candidate left after the last comma
TraitLoop(args, i, traits, current_trait) ==
    IF i > Len(args)
    THEN IF current_trait # <<>> THEN PushIfOk(traits, current_trait) ELSE traits
    ELSE IF args[i] = Comma
         THEN IF current_trait # <<>>
              THEN TraitLoop(args, i + 1, PushIfOk(traits, current_trait), <<>>)
              ELSE TraitLoop(args, i + 1, traits, current_trait)
         ELSE TraitLoop(args, i + 1, traits, push_str(current_trait, to_string(args[i])))

RECURSIVE Flatten(_)
\* the tokens of a stream with the tokens of its groups in their place
Flatten(stream) ==
    IF stream = <<>> THEN <<>>
    ELSE (IF Head(stream).tt = "Group" THEN Flatten(Head(stream).stream) ELSE <<Head(stream)>>)
             \o Flatten(Tail(stream))

\* commas inside groups split as well
parse_derive_traits_flat(args) ==
    IF args = <<>> THEN <<>> ELSE TraitLoop(Flatten(args), 1, <<>>, <<>>)

parse_derive_traits(args) ==
    IF args = <<>> THEN <<>> ELSE TraitLoop(args, 1, <<>>, <<>>)

(***************************************************************************)
(* The declarations the model expands.                                     *)
(***************************************************************************)
\* Mac![i32]
MacI == TypeMacro("Mac", <<Ident("i32")>>)

\* Mac![T]
MacT == TypeMacro("Mac", <<Ident("T")>>)

\* Other![T]
OtherT == TypeMacro("Other", <<Ident("T")>>)

\* Mac![&'a [T; N]]
MacRef ==
    TypeMacro("Mac", <<Punct("&"), Punct("'"), Ident("a"),
                       Group("Bracket", <<Ident("T"), Punct(";"), Ident("N")>>)>>)

\* Mac![({[U]}), "T", a]
MacDeep ==
    TypeMacro("Mac", <<Group("Parenthesis",
                             <<Group("Brace", <<Group("Bracket", <<Ident("U")>>)>>)>>),
                       Punct(","), Literal("\"T\""), Punct(","), Ident("a")>>)

\* Mac![Inner![U]]
MacNested ==
    TypeMacro("Mac", <<Ident("Inner"), Punct("!"), Group("Bracket", <<Ident("U")>>)>>)

\* Mac![&'static a]
MacStatic == TypeMacro("Mac", <<Punct("&"), Punct("'"), Ident("static"), Ident("a")>>)

\* 'a
LtA == LifetimeParam("a", <<>>)

\* a, a type parameter spelled like the lifetime
TyA == TypeParam("a", <<>>, "None")

\* T: Clone = i32
TyT == TypeParam("T", <<Ident("Clone")>>, "i32")

\* U: From<T>
TyU == TypeParam("U", <<Ident("From"), Punct("<"), Ident("T"), Punct(">")>>, "None")

\* const N: usize = 0
CoN == ConstParam("N", "usize", "0")

GenericParamPool == {LtA, TyA, TyT, TyU, CoN}

Range(q) == {q[i] : i \in 1..Len(q)}

RECURSIVE DistinctSeqs(_, _)
\* the sequences of at most n different elements of S
DistinctSeqs(S, n) ==
    IF n = 0 THEN {<<>>}
    ELSE LET shorter == DistinctSeqs(S, n - 1)
         IN  shorter \cup UNION {{Append(q, x) : x \in S \ Range(q)} : q \in shorter}

\* the sequences of lo..hi elements of S
SeqsOf(S, lo, hi) == UNION {[1..m -> S] : m \in lo..hi}

\* Outer<ty, U>
OuterOf(ty) ==
    TypePath(<<PathSegment("Outer", AngleBracketed(<<ArgType(ty), ArgType(Plain("U"))>>))>>)

\* Cow<'a, T>
CowT ==
    TypePath(<<PathSegment("Cow", AngleBracketed(<<ArgLifetime("'a"), ArgType(Plain("T"))>>))>>)

NamedFields(tys) == FieldsNamed([i \in 1..Len(tys) |-> Field("f" \o ToString(i), tys[i])])

UnnamedFields(tys) == FieldsUnnamed([i \in 1..Len(tys) |-> Field("", tys[i])])

\* one field, every list of generic parameters
GenericRichTypes ==
    {MacI, MacT, MacRef, MacDeep, MacNested, MacStatic, OuterOf(MacT), TypeReference("'a", MacI), CowT,
     TypeBareFn(<<MacT>>, Plain("i32"))}

GenericRich ==
    {DeriveInput("S", generics, DataStruct(NamedFields(<<ty>>))) :
        generics \in DistinctSeqs(GenericParamPool, MaxGenerics), ty \in GenericRichTypes}

\* several fields or variants, fixed generic parameters
FieldRichTypes ==
    {MacI, MacT, OtherT, Plain("T"), TypeTuple(<<MacT, MacI>>),
     TypePath(<<PathSegment("Vec", AngleBracketed(<<ArgType(MacI)>>))>>)}

VariantFields ==
    {FieldsUnit, NamedFields(<<MacT>>)} \cup {UnnamedFields(<<ty>>) : ty \in FieldRichTypes}

FieldRichData ==
    {DataStruct(NamedFields(tys)) : tys \in SeqsOf(FieldRichTypes, 0, MaxFields)}
        \cup {DataUnion(NamedFields(tys)) : tys \in SeqsOf(FieldRichTypes, 1, MaxFields)}
        \cup {DataEnum([i \in 1..Len(vs) |-> Variant("V" \o ToString(i), vs[i])]) :
                 vs \in SeqsOf(VariantFields, 1, MaxFields)}

\* where T: Copy
WhereTCopy == <<Ident("T"), Punct(":"), Ident("Copy")>>

FieldRich == {Where(DeriveInput("S", <<LtA, TyT>>, data), WhereTCopy) : data \in FieldRichData}

\* one field, a macro invocation or a plain type under up to MaxDepth wrappers
Wrappers == {"Path", "Array", "Slice", "Ptr", "Reference", "Tuple"}

Wrap(w, ty) ==
    CASE w = "Path" -> OuterOf(ty)
      [] w = "Array" -> TypeArray(ty, "3")
      [] w = "Slice" -> TypeSlice(ty)
      [] w = "Ptr" -> TypePtr(ty)
      [] w = "Reference" -> TypeReference("'a", ty)
      [] w = "Tuple" -> TypeTuple(<<MacI, ty, Plain("U")>>)

RECURSIVE Nested(_)
\* the types of nesting depth at most d
Nested(d) ==
    IF d = 0 THEN {MacT, Plain("T")}
    ELSE LET inner == Nested(d - 1)
         IN  inner \cup {Wrap(w, ty) : w \in Wrappers, ty \in inner}

Deep == {DeriveInput("S", <<LtA, TyT>>, DataStruct(UnnamedFields(<<ty>>))) : ty \in Nested(MaxDepth)}

\* types of shapes the passes do not look into, each with a macro
\* invocation inside: fn(Mac![T]) -> i32, dyn Outer<Mac![T], U>, (Mac![T]),
\* (Mac![i32], fn(Other![T]) -> i32), *const (Other![T])
OpaqueTypes ==
    {TypeBareFn(<<MacT>>, Plain("i32")),
     TypeTraitObject(<<OuterOf(MacT)>>),
     TypeParen(MacT),
     TypeTuple(<<MacI, TypeBareFn(<<OtherT>>, Plain("i32"))>>),
     TypePtr(TypeParen(OtherT))}

\* such a type in the only field, or before a field of type Mac![T]
Opaque ==
    {DeriveInput("S", <<LtA, TyT>>, DataStruct(NamedFields(tys))) :
        tys \in {<<ty>> : ty \in OpaqueTypes} \cup {<<ty, MacT>> : ty \in OpaqueTypes}}

\* From<(A, B)>
FromTuple ==
    <<Ident("From"), Punct("<"),
      Group("Parenthesis", <<Ident("A"), Comma, Ident("B")>>), Punct(">")>>

\* what argument lists are made of: a comma, Debug, Clone, From<(A, B)>, `!`
ArgPieces == {<<Comma>>, <<Ident("Debug")>>, <<Ident("Clone")>>, FromTuple, <<Punct("!")>>}

RECURSIVE Concat(_)
Concat(pieces) == IF pieces = <<>> THEN <<>> ELSE Head(pieces) \o Concat(Tail(pieces))

\* every argument list of at most MaxArgs pieces
ArgStreams == {Concat(pieces) : pieces \in SeqsOf(ArgPieces, 0, MaxArgs)}

\* no arguments, and `Debug, Clone`
TraitLists == {<<>>, <<Ident("Debug"), Comma, Ident("Clone")>>}

\* one declaration under every argument list
ArgsRich ==
    {[input |-> DeriveInput("S", <<LtA, TyT>>, DataStruct(NamedFields(<<MacT>>))),
      args |-> args] : args \in ArgStreams}

Invocations ==
    {[input |-> d, args |-> t] : d \in GenericRich, t \in TraitLists}
        \cup {[input |-> d, args |-> <<Ident("Debug")>>] : d \in FieldRich \cup Deep \cup Opaque}
        \cup ArgsRich

\* the declarations of the crates that hold two
CratePool ==
    {[input |-> DeriveInput("S", <<LtA, TyT>>, DataStruct(NamedFields(tys))),
      args |-> <<Ident("Debug")>>] :
        tys \in {<<MacT>>, <<MacT, MacI>>, <<OtherT, MacT>>}}

\* a crate is the annotated declarations the compiler expands, in order
Crates ==
    {<<inv>> : inv \in Invocations} \cup {<<a, b>> : a \in CratePool, b \in CratePool}

(***************************************************************************)
(* The state of the expansions of one crate.                               *)
(***************************************************************************)
VARIABLES
    input,          \* the parsed declaration
    args,           \* the attribute's argument tokens
    derive_traits,  \* the parsed trait paths
    pc,             \* "called", "running" until impl_type_macro_derive_tricks
                    \* returns, then "returned"
    visited,        \* how many macro types the find pass has reached
    macro_types,    \* HashMap<Type, Ident>
    type_aliases,   \* Vec of alias items
    expanded,       \* the returned items
    pending,        \* the annotated declarations not yet expanded
    done            \* what the earlier expansions were given and returned

vars ==
    <<input, args, derive_traits, pc, visited, macro_types, type_aliases, expanded,
      pending, done>>

\* the macro types the find pass reaches, in its order
Visits == collect_macro_types(input.data)

\* an insertion without the contains_key test
register_overwriting(types, ty, alias_name) ==
    (ty :> alias_name) @@ types

\* the `if let Type::Macro(_) = ty` arm of collect_macro_types_from_type
register(types, ty, alias_name) ==
    IF ty \notin DOMAIN types THEN types @@ (ty :> alias_name) ELSE types

\* HashMap::new()
HashMapNew == [ty \in {} |-> ""]

Init ==
    /\ \E crate \in Crates :
           /\ input = crate[1].input
           /\ args = crate[1].args
           /\ pending = Tail(crate)
    /\ done = <<>>
    /\ derive_traits = <<>>
    /\ pc = "called"
    /\ visited = 0
    /\ macro_types = HashMapNew
    /\ type_aliases = <<>>
    /\ expanded = <<>>

\* the trait paths of an earlier expansion are still in the vector
MacroDeriveKeepingTraits ==
    /\ pc = "called"
    /\ derive_traits' = derive_traits \o parse_derive_traits(args)
    /\ macro_types' = HashMapNew
    /\ type_aliases' = <<>>
    /\ visited' = 0
    /\ pc' = "running"
    /\ UNCHANGED <<input, args, expanded, pending, done>>

\* the map of an earlier expansion is still there
MacroDeriveKeepingMap ==
    /\ pc = "called"
    /\ derive_traits' = parse_derive_traits(args)
    /\ type_aliases' = <<>>
    /\ visited' = 0
    /\ pc' = "running"
    /\ UNCHANGED <<input, args, macro_types, expanded, pending, done>>

\* macro_derive down to the find pass: the arguments are parsed, then
\* impl_type_macro_derive_tricks makes its map and its vector
MacroDerive ==
    /\ pc = "called"
    /\ derive_traits' = parse_derive_traits(args)
    /\ macro_types' = HashMapNew
    /\ type_aliases' = <<>>
    /\ visited' = 0
    /\ pc' = "running"
    /\ UNCHANGED <<input, args, expanded, pending, done>>

\* Step 1, one macro type reached: a name is drawn only for a new key
Register ==
    /\ pc = "running"
    /\ visited < Len(Visits)
    /\ LET ty == Visits[visited + 1]
       IN  IF ty \in DOMAIN macro_types
           THEN macro_types' = register(macro_types, ty, "")
           ELSE \E draw \in Draws :
                    macro_types' = register(macro_types, ty, generate_random_type_name(draw))
    /\ visited' = visited + 1
    /\ UNCHANGED <<input, args, derive_traits, pc, type_aliases, expanded, pending, done>>

\* Step 2, one iteration of the loop over the map
GenerateAlias ==
    /\ pc = "running"
    /\ visited = Len(Visits)
    /\ \E macro_type \in Unvisited(macro_types, type_aliases) :
           type_aliases' =
               Append(type_aliases,
                      type_alias(macro_type, macro_types[macro_type], input.generics))
    /\ UNCHANGED <<input, args, derive_traits, pc, visited, macro_types, expanded, pending, done>>

\* an expansion that returns only if it made an alias
ExpandOnlyWithAliases ==
    /\ pc = "running"
    /\ visited = Len(Visits)
    /\ Unvisited(macro_types, type_aliases) = {}
    /\ type_aliases # <<>>
    /\ expanded' = Combine(type_aliases, derive_attrs(derive_traits),
                           transform_input(input, macro_types))
    /\ pc' = "returned"
    /\ UNCHANGED <<input, args, derive_traits, visited, macro_types, type_aliases, pending, done>>

\* Steps 3 to 5, after the loop
Expand ==
    /\ pc = "running"
    /\ visited = Len(Visits)
    /\ Unvisited(macro_types, type_aliases) = {}
    /\ expanded' = Combine(type_aliases, derive_attrs(derive_traits),
                           transform_input(input, macro_types))
    /\ pc' = "returned"
    /\ UNCHANGED <<input, args, derive_traits, visited, macro_types, type_aliases, pending, done>>

\* the compiler reaches the next annotated declaration of the crate
NextDeclaration ==
    /\ pc = "returned"
    /\ pending # <<>>
    /\ done' = Append(done, [input |-> input, args |-> args,
                             macro_types |-> macro_types, expanded |-> expanded])
    /\ input' = Head(pending).input
    /\ args' = Head(pending).args
    /\ pending' = Tail(pending)
    /\ pc' = "called"
    /\ UNCHANGED <<derive_traits, visited, macro_types, type_aliases, expanded>>

Next == MacroDerive \/ Register \/ GenerateAlias \/ Expand \/ NextDeclaration

Spec == Init /\ [][Next]_vars

\* crates with every kind of declaration, every wrapper, every shape the
\* passes do not look into and short argument lists of every piece
FairCrates ==
    {<<[input |-> d, args |-> <<Ident("Debug")>>]>> :
        d \in Opaque
            \cup {DeriveInput("S", <<LtA, TyT>>, DataStruct(UnnamedFields(<<ty>>))) :
                      ty \in Nested(1)}
            \cup {DeriveInput("S", <<LtA, TyT>>, DataUnion(NamedFields(<<ty>>))) :
                      ty \in FieldRichTypes}
            \cup {DeriveInput("S", <<LtA, TyT>>,
                               DataEnum(<<Variant("V1", fields), Variant("V2", FieldsUnit)>>)) :
                      fields \in VariantFields}}
        \cup {<<[input |-> DeriveInput("S", <<LtA, TyT>>, DataStruct(NamedFields(<<MacT>>))),
                 args |-> Concat(pieces)]>> : pieces \in SeqsOf(ArgPieces, 0, 2)}
        \cup {<<a, b>> : a \in CratePool, b \in CratePool}

InitFair ==
    /\ \E crate \in FairCrates :
           /\ input = crate[1].input
           /\ args = crate[1].args
           /\ pending = Tail(crate)
    /\ done = <<>>
    /\ derive_traits = <<>>
    /\ pc = "called"
    /\ visited = 0
    /\ macro_types = HashMapNew
    /\ type_aliases = <<>>
    /\ expanded = <<>>

\* the code is sequential and the compiler runs each call it makes to its
\* end: a step that can be taken is taken
FairSpec == InitFair /\ [][Next]_vars /\ WF_vars(Next)

(***************************************************************************)
(* Vocabulary of the properties: positions in a type, occurrences of a     *)
(* parameter in tokens, the parts of the output.                           *)
(***************************************************************************)
\* the places of a type that hold a nested type the passes descend into:
\* <<s, a>> is argument a of segment s of a path, <<0, i>> element i of a
\* tuple, <<0, 0>> the element of an array, slice, pointer or reference
Slots(ty) ==
    CASE ty.k = "Path" ->
             UNION {{<<s, a>> : a \in {b \in 1..Len(ty.segments[s].arguments.args) :
                                          /\ ty.segments[s].arguments.pa = "AngleBracketed"
                                          /\ ty.segments[s].arguments.args[b].ga = "Type"}} :
                       s \in 1..Len(ty.segments)}
      [] ty.k \in {"Array", "Slice", "Ptr", "Reference"} -> {<<0, 0>>}
      [] ty.k = "Tuple" -> {<<0, i>> : i \in 1..Len(ty.elems)}
      [] OTHER -> {}

Missing == [k |-> "Missing"]

Get(ty, slot) ==
    IF slot \notin Slots(ty) THEN Missing
    ELSE CASE ty.k = "Path" -> ty.segments[slot[1]].arguments.args[slot[2]].ty
           [] ty.k = "Tuple" -> ty.elems[slot[2]]
           [] OTHER -> ty.elem

Put(ty, slot, new) ==
    IF slot \notin Slots(ty) THEN Missing
    ELSE CASE ty.k = "Path" ->
                  [ty EXCEPT !.segments[slot[1]].arguments.args[slot[2]].ty = new]
           [] ty.k = "Tuple" -> [ty EXCEPT !.elems[slot[2]] = new]
           [] OTHER -> [ty EXCEPT !.elem = new]

RECURSIVE Positions(_)
\* a position is the sequence of slots leading to a nested type
Positions(ty) ==
    {<<>>} \cup UNION {{<<slot>> \o p : p \in Positions(Get(ty, slot))} : slot \in Slots(ty)}

RECURSIVE SubtreeAt(_, _)
SubtreeAt(ty, pos) ==
    IF pos = <<>> THEN ty ELSE SubtreeAt(Get(ty, Head(pos)), Tail(pos))

RECURSIVE ReplaceAt(_, _, _)
ReplaceAt(ty, pos, new) ==
    IF pos = <<>> THEN new
    ELSE Put(ty, Head(pos), ReplaceAt(Get(ty, Head(pos)), Tail(pos), new))

\* the positions of the macro invocations the passes can reach
MacroPositions(ty) == {pos \in Positions(ty) : SubtreeAt(ty, pos).k = "Macro"}

RECURSIVE ContainsMacro(_)
\* a macro invocation anywhere in the type, reachable by the passes or not
ContainsMacro(ty) ==
    CASE ty.k = "Macro" -> TRUE
      [] ty.k = "Path" ->
             \E s \in 1..Len(ty.segments) :
                 \E a \in 1..Len(ty.segments[s].arguments.args) :
                     /\ ty.segments[s].arguments.args[a].ga \in {"Type", "AssocType"}
                     /\ ContainsMacro(ty.segments[s].arguments.args[a].ty)
      [] ty.k \in {"Array", "Slice", "Ptr", "Reference", "Paren"} -> ContainsMacro(ty.elem)
      [] ty.k = "Tuple" -> \E i \in 1..Len(ty.elems) : ContainsMacro(ty.elems[i])
      [] ty.k = "BareFn" ->
             \/ \E i \in 1..Len(ty.inputs) : ContainsMacro(ty.inputs[i])
             \/ ContainsMacro(ty.output)
      [] ty.k = "TraitObject" -> \E i \in 1..Len(ty.bounds) : ContainsMacro(ty.bounds[i])
      [] OTHER -> FALSE

RECURSIVE MacrosAnywhere(_)
\* the macro invocations anywhere in the type, reachable by the passes or not
MacrosAnywhere(ty) ==
    CASE ty.k = "Macro" -> {ty}
      [] ty.k = "Path" ->
             UNION {UNION {MacrosAnywhere(ty.segments[s].arguments.args[a].ty) :
                              a \in {b \in 1..Len(ty.segments[s].arguments.args) :
                                        ty.segments[s].arguments.args[b].ga
                                            \in {"Type", "AssocType"}}} :
                       s \in 1..Len(ty.segments)}
      [] ty.k \in {"Array", "Slice", "Ptr", "Reference", "Paren"} -> MacrosAnywhere(ty.elem)
      [] ty.k = "Tuple" -> UNION {MacrosAnywhere(ty.elems[i]) : i \in 1..Len(ty.elems)}
      [] ty.k = "BareFn" ->
             UNION {MacrosAnywhere(ty.inputs[i]) : i \in 1..Len(ty.inputs)}
                 \cup MacrosAnywhere(ty.output)
      [] ty.k = "TraitObject" -> UNION {MacrosAnywhere(ty.bounds[i]) : i \in 1..Len(ty.bounds)}
      [] OTHER -> {}

\* a shape the passes leave to their `_ => {}` arm
Unsupported(ty) ==
    ty.k \notin {"Macro", "Path", "Array", "Slice", "Ptr", "Reference", "Tuple", "Missing"}

RECURSIVE TokenSequences(_)
\* the token sequences of a stream: the stream and, at any depth, the
\* content of each group
TokenSequences(tokens) ==
    {tokens} \cup UNION {TokenSequences(tokens[i].stream) :
                            i \in {j \in 1..Len(tokens) : tokens[j].tt = "Group"}}

IdentsIn(tokens) ==
    UNION {{q[i].s : i \in {j \in 1..Len(q) : q[j].tt = "Ident"}} : q \in TokenSequences(tokens)}

LifetimesIn(tokens) ==
    UNION {{q[i + 1].s : i \in {j \in 1..Len(q) - 1 :
                                   /\ q[j].tt = "Punct"
                                   /\ q[j].s = "'"
                                   /\ q[j + 1].tt = "Ident"}} :
              q \in TokenSequences(tokens)}

\* the parameter lexically occurs in the tokens
Occurs(param, tokens) ==
    IF param.kind = "Lifetime"
    THEN param.ident \in LifetimesIn(tokens)
    ELSE param.ident \in IdentsIn(tokens)

SameParam(p, q) == p.kind = q.kind /\ p.ident = q.ident

RECURSIVE VariantFieldLists(_)
VariantFieldLists(variants) ==
    IF variants = <<>> THEN <<>>
    ELSE Head(variants).fields.list \o VariantFieldLists(Tail(variants))

\* the field types of a declaration, in declaration order
FieldTys(decl) ==
    LET list == IF decl.data.kind = "Enum"
                THEN VariantFieldLists(decl.data.variants)
                ELSE decl.data.fields.list
    IN  [i \in 1..Len(list) |-> list[i].ty]

Returned == pc = "returned"

\* the transformed declaration, the last item of the output
Transformed == expanded[Len(expanded)].decl

OldTys == FieldTys(input)

NewTys == FieldTys(Transformed)

\* the alias items of the output
AliasItems == SelectSeq(expanded, LAMBDA it: it.item = "Type")

\* the alias items whose right-hand side is the macro invocation m
AliasesOf(items, m) == {i \in 1..Len(items) : items[i].ty = m}

\* the field type names the alias `name` at the position pos
NamesAlias(ty, pos, name) ==
    LET sub == SubtreeAt(ty, pos)
    IN  /\ sub.k = "Path"
        /\ Len(sub.segments) = 1
        /\ sub.segments[1].ident = name

\* the fields that hold the macro invocation m at a reachable position
FieldsWith(m) ==
    {i \in 1..Len(OldTys) : \E pos \in MacroPositions(OldTys[i]) : SubtreeAt(OldTys[i], pos) = m}

\* the macro invocations of the declaration at reachable positions
MacrosOf(tys) ==
    UNION {{SubtreeAt(tys[i], pos) : pos \in MacroPositions(tys[i])} : i \in 1..Len(tys)}

(***************************************************************************)
(* The properties.                                                         *)
(***************************************************************************)
\* C1 (dedup): when the expansion has returned, a macro invocation that
\* occurs in two or more fields has exactly one alias item in the output,
\* and each of its occurrences is rewritten to a path naming that item.
C1_Dedup ==
    Returned =>
        /\ Len(NewTys) = Len(OldTys)
        /\ \A m \in MacrosOf(OldTys) :
               Cardinality(FieldsWith(m)) >= 2 =>
                   /\ Cardinality(AliasesOf(AliasItems, m)) = 1
                   /\ \A i \in FieldsWith(m) :
                          \A pos \in MacroPositions(OldTys[i]) :
                              SubtreeAt(OldTys[i], pos) = m =>
                                  \A a \in AliasesOf(AliasItems, m) :
                                      NamesAlias(NewTys[i], pos, AliasItems[a].ident)

\* C1 witness: an enum has returned in which one macro invocation is the
\* whole field of one variant and is nested inside the field of another.
C1_Witness ==
    /\ Returned
    /\ input.data.kind = "Enum"
    /\ \E m \in MacrosOf(OldTys) :
           \E i, j \in FieldsWith(m) :
               /\ i # j
               /\ OldTys[i] = m
               /\ OldTys[j] # m

\* C2 (distinctness), as claimed: two different macro invocations of the
\* map never carry the same alias name.
C2_DistinctNames ==
    \A m1, m2 \in DOMAIN macro_types :
        m1 # m2 => macro_types[m1] # macro_types[m2]

\* C3 (minimization soundness): a generic parameter of the declaration is
\* in an alias's parameter list exactly if it occurs in the argument tokens
\* of the alias's macro invocation, and the list holds nothing else.
C3_MinimizationSound ==
    \A a \in 1..Len(type_aliases) :
        LET al == type_aliases[a]
        IN  /\ \A g \in 1..Len(input.generics) :
                   (\E j \in 1..Len(al.generics) : SameParam(al.generics[j], input.generics[g]))
                       <=> Occurs(input.generics[g], al.ty.tokens)
            /\ \A j \in 1..Len(al.generics) :
                   \E g \in 1..Len(input.generics) :
                       SameParam(al.generics[j], input.generics[g])

\* C3 witness: an alias keeps one parameter of the declaration and leaves
\* out another, for an invocation that names a parameter inside a group.
C3_Witness ==
    \E a \in 1..Len(type_aliases) :
        /\ type_aliases[a].ty \in {MacRef, MacDeep}
        /\ type_aliases[a].generics # <<>>
        /\ Len(type_aliases[a].generics) < Len(input.generics)

\* the names of a parameter list as generic arguments, in the list's order
ArgsInOrder(params) ==
    [i \in 1..Len(params) |->
        IF params[i].kind = "Lifetime"
        THEN ArgLifetime("'" \o params[i].ident)
        ELSE ArgType(Plain(params[i].ident))]

\* the same names, the lifetimes moved to the front
ArgsLifetimesFirst(params) ==
    ArgsInOrder(SelectSeq(params, LAMBDA q: q.kind = "Lifetime"))
        \o ArgsInOrder(SelectSeq(params, LAMBDA q: q.kind # "Lifetime"))

\* the reference to an alias item: its name, followed by the names of its
\* parameters unless it has none
UseOf(al, lifetimes_first) ==
    TypePath(<<PathSegment(al.ident,
                           IF al.generics = <<>> THEN NoArguments
                           ELSE IF lifetimes_first
                                THEN AngleBracketed(ArgsLifetimesFirst(al.generics))
                                ELSE AngleBracketed(ArgsInOrder(al.generics)))>>)

\* every reachable macro invocation of every field is replaced by the
\* reference to its alias item
UseSitesAre(lifetimes_first) ==
    /\ Len(NewTys) = Len(OldTys)
    /\ \A i \in 1..Len(OldTys) :
           \A pos \in MacroPositions(OldTys[i]) :
               LET m == SubtreeAt(OldTys[i], pos)
               IN  /\ AliasesOf(AliasItems, m) # {}
                   /\ \A a \in AliasesOf(AliasItems, m) :
                          SubtreeAt(NewTys[i], pos) = UseOf(AliasItems[a], lifetimes_first)

\* C4 (use-site rewriting), as claimed: each macro invocation is replaced
\* by the alias's name followed by the names of the alias's parameters in
\* the alias's order, and by the bare name when the alias has none.
C4_UseSiteInAliasOrder == Returned => UseSitesAre(FALSE)

\* C4, amended: each macro invocation is replaced by the alias's name
\* followed by the names of the alias's parameters, the lifetimes first and
\* then the type and const parameters, each group in the alias's order; by
\* the bare name when the alias has no parameters.
C4_UseSiteLifetimesFirst == Returned => UseSitesAre(TRUE)

\* C4 witness: Struct<T, U> { f: Outer<Mac![T], U> } has returned.
C4_Witness ==
    /\ Returned
    /\ input.generics = <<TyT, TyU>>
    /\ OldTys = <<OuterOf(MacT)>>
    /\ Len(AliasItems) = 1
    /\ NewTys = <<OuterOf(TypePath(<<PathSegment(AliasItems[1].ident,
                                                 AngleBracketed(<<ArgType(Plain("T"))>>))>>))>>

\* the place of a parameter in the declaration's parameter list
IndexIn(generics, param) ==
    CHOOSE g \in 1..Len(generics) : SameParam(generics[g], param)

\* C5 (minimize preserves order): the parameters of an alias stand in the
\* order they have in the declaration's parameter list.
C5_OrderPreserved ==
    \A a \in 1..Len(type_aliases) :
        LET al == type_aliases[a]
        IN  \A i, j \in 1..Len(al.generics) :
                i < j => IndexIn(input.generics, al.generics[i])
                             < IndexIn(input.generics, al.generics[j])

\* C5 witness: an alias has a type or const parameter before a lifetime and
\* leaves out a parameter of the declaration.
C5_Witness ==
    \E a \in 1..Len(type_aliases) :
        LET al == type_aliases[a]
        IN  /\ Len(al.generics) >= 2
            /\ Len(al.generics) < Len(input.generics)
            /\ al.generics[1].kind # "Lifetime"
            /\ al.generics[Len(al.generics)].kind = "Lifetime"

\* C6 (no parameter mentioned): a macro invocation whose tokens name no
\* parameter of the declaration gets an alias without a parameter list and
\* is replaced by the bare alias name, whatever the type around it uses.
C6_NonGenericAlias ==
    /\ \A a \in 1..Len(type_aliases) :
           (\A g \in 1..Len(input.generics) :
                ~Occurs(input.generics[g], type_aliases[a].ty.tokens))
               => type_aliases[a].generics = <<>>
    /\ Returned =>
           /\ Len(NewTys) = Len(OldTys)
           /\ \A i \in 1..Len(OldTys) :
                  \A pos \in MacroPositions(OldTys[i]) :
                      LET m == SubtreeAt(OldTys[i], pos)
                      IN  (\A g \in 1..Len(input.generics) :
                               ~Occurs(input.generics[g], m.tokens))
                              => /\ m \in DOMAIN macro_types
                                 /\ SubtreeAt(NewTys[i], pos) = Plain(macro_types[m])

\* C6 witness: a declaration generic over 'a and T has returned whose field
\* is &'a Mac![i32].
C6_Witness ==
    /\ Returned
    /\ \E g \in 1..Len(input.generics) : input.generics[g] = LtA
    /\ \E g \in 1..Len(input.generics) : input.generics[g] = TyT
    /\ OldTys = <<TypeReference("'a", MacI)>>
    /\ AliasItems[1].generics = <<>>

\* C7 (structural preservation): a field whose type holds no macro
\* invocation has the same type in the transformed declaration.
C7_StructuralPreservation ==
    Returned =>
        /\ Len(NewTys) = Len(OldTys)
        /\ \A i \in 1..Len(OldTys) :
               ~ContainsMacro(OldTys[i]) => NewTys[i] = OldTys[i]

\* C7 witness: a declaration has returned whose field type holds no macro
\* invocation under three wrappers, the outermost a path with arguments.
C7_Witness ==
    /\ Returned
    /\ \E i \in 1..Len(OldTys) :
           /\ ~ContainsMacro(OldTys[i])
           /\ OldTys[i].k = "Path"
           /\ \E pos \in Positions(OldTys[i]) : Len(pos) >= 3

RECURSIVE Restore(_, _, _)
\* ty with the subtrees of old put back at the given positions
Restore(ty, old, positions) ==
    IF positions = {} THEN ty
    ELSE LET pos == CHOOSE p \in positions : TRUE
         IN  Restore(ReplaceAt(ty, pos, SubtreeAt(old, pos)), old, positions \ {pos})

\* C8 (round-trip nesting): a macro invocation at any depth under paths,
\* arrays, slices, pointers, references and tuples is in the map, has an
\* alias item, and is replaced at its position by a path naming its alias;
\* the rest of the field type is as in the input.
C8_RoundTripNesting ==
    Returned =>
        /\ Len(NewTys) = Len(OldTys)
        /\ \A i \in 1..Len(OldTys) :
               /\ \A pos \in MacroPositions(OldTys[i]) :
                      LET m == SubtreeAt(OldTys[i], pos)
                      IN  /\ m \in DOMAIN macro_types
                          /\ AliasesOf(AliasItems, m) # {}
                          /\ NamesAlias(NewTys[i], pos, macro_types[m])
               /\ Restore(NewTys[i], OldTys[i], MacroPositions(OldTys[i])) = OldTys[i]

\* C8 witness: a declaration has returned whose field is a tuple holding a
\* macro invocation three levels deep, replaced there by its alias.
C8_Witness ==
    /\ Returned
    /\ Len(OldTys) = 1
    /\ OldTys[1].k = "Tuple"
    /\ \E pos \in MacroPositions(OldTys[1]) :
           /\ Len(pos) = 3
           /\ SubtreeAt(OldTys[1], pos) = MacT
           /\ NamesAlias(NewTys[1], pos, macro_types[MacT])

\* C9 (output order): the output ends with the declaration; a derive
\* attribute, if there is one, stands immediately before it; everything
\* before them is an alias item.
C9_OutputOrder ==
    Returned =>
        LET n == Len(expanded)
        IN  /\ n >= 1
            /\ expanded[n].item = "Declaration"
            /\ \A i \in 1..n - 1 :
                   /\ expanded[i].item \in {"Type", "DeriveAttr"}
                   /\ expanded[i].item = "DeriveAttr" => i = n - 1
            /\ (\E i \in 1..n : expanded[i].item = "DeriveAttr") <=> derive_traits # <<>>
            /\ Len(AliasItems) = Len(type_aliases)

\* C9 witness: an output of two alias items, a derive attribute and the
\* declaration.
C9_Witness ==
    /\ Returned
    /\ Len(expanded) = 4
    /\ expanded[1].item = "Type"
    /\ expanded[2].item = "Type"
    /\ expanded[3].item = "DeriveAttr"
    /\ expanded[4].item = "Declaration"

RECURSIVE Dedup(_)
\* the sequence without the repetitions of an earlier element
Dedup(q) ==
    IF q = <<>> THEN <<>>
    ELSE LET front == Dedup(SubSeq(q, 1, Len(q) - 1))
             last == q[Len(q)]
         IN  IF last \in Range(front) THEN front ELSE Append(front, last)

\* the distinct macro invocations in the order the find pass first
\* encounters them
FirstSeen == Dedup(Visits)

DeriveItems == SelectSeq(expanded, LAMBDA it: it.item = "DeriveAttr")

\* C11 (derive item): when the expansion has returned and the parsed trait
\* list is not empty, the output holds exactly one derive attribute, and it
\* lists the parsed traits as they are, in their order and with their
\* repetitions; when the list is empty the output holds no derive attribute.
C11_DeriveItem ==
    Returned =>
        IF derive_traits # <<>>
        THEN /\ Len(DeriveItems) = 1
             /\ DeriveItems[1].traits = derive_traits
        ELSE DeriveItems = <<>>

\* C11 witness: `Debug, Debug` has been expanded, and the one derive
\* attribute lists Debug twice.
C11_Witness ==
    /\ Returned
    /\ args = <<Ident("Debug"), Comma, Ident("Debug")>>
    /\ Len(DeriveItems) = 1
    /\ DeriveItems[1].traits = <<<<Ident("Debug")>>, <<Ident("Debug")>>>>

RECURSIVE Candidates(_)
\* the non-empty runs of tokens between the commas of the stream itself
Candidates(stream) ==
    IF stream = <<>> THEN <<>>
    ELSE IF Head(stream) = Comma THEN Candidates(Tail(stream))
    ELSE LET n == CHOOSE n \in 1..Len(stream) :
                      /\ \A j \in 1..n : stream[j] # Comma
                      /\ n = Len(stream) \/ stream[n + 1] = Comma
         IN  <<SubSeq(stream, 1, n)>> \o Candidates(SubSeq(stream, n + 1, Len(stream)))

RECURSIVE TextOf(_)
\* the string the tokens of a candidate are collected into
TextOf(candidate) ==
    IF candidate = <<>> THEN <<>>
    ELSE push_str(TextOf(SubSeq(candidate, 1, Len(candidate) - 1)),
                  to_string(candidate[Len(candidate)]))

RECURSIVE ParsedTexts(_)
\* the paths of the candidates whose string parses, in order
ParsedTexts(candidates) ==
    IF candidates = <<>> THEN <<>>
    ELSE PushIfOk(ParsedTexts(SubSeq(candidates, 1, Len(candidates) - 1)),
                  TextOf(candidates[Len(candidates)]))

\* the arguments have been parsed
Parsed == pc # "called"

\* C12 (splitting): once the arguments are parsed, the trait list is made
\* of the non-empty runs of tokens between the top-level commas of the
\* argument stream, a group counting as one token whatever commas it holds;
\* `Debug, ,Clone` gives the list [Debug, Clone].
C12_TopLevelCommas ==
    Parsed =>
        /\ derive_traits = ParsedTexts(Candidates(args))
        /\ args = <<Ident("Debug"), Comma, Comma, Ident("Clone")>> =>
               derive_traits = <<<<Ident("Debug")>>, <<Ident("Clone")>>>>

\* C12 witness: `From<(A, B)>, , Debug` has been parsed into two paths, the
\* first holding the group with its comma.
C12_Witness ==
    /\ Parsed
    /\ args = FromTuple \o <<Comma, Comma, Ident("Debug")>>
    /\ derive_traits = <<FromTuple, <<Ident("Debug")>>>>

\* the tokens of the candidate are a path
IsPath(candidate) == parse_str(candidate).ok

\* C13 (unparseable candidate): once the arguments are parsed, the trait
\* list is the candidates that are paths, in their order; a candidate that
\* is not a path adds nothing to the list.
C13_UnparseableDropped ==
    Parsed => derive_traits = SelectSeq(Candidates(args), IsPath)

\* the earlier expansions that were given the declaration and the arguments
\* of this one and drew the same names in the same order
SameRuns ==
    {i \in 1..Len(done) :
        /\ done[i].input = input
        /\ done[i].args = args
        /\ done[i].macro_types = macro_types}

RestOf(items) == SelectSeq(items, LAMBDA it: it.item # "Type")

\* the alias items of an output, as a set
AliasSetOf(items) == {items[i] : i \in {j \in 1..Len(items) : items[j].item = "Type"}}

C15_FreshRegistry ==
    /\ Parsed => DOMAIN macro_types = Range(SubSeq(Visits, 1, visited))
    /\ Returned =>
           /\ {AliasItems[i].ty : i \in 1..Len(AliasItems)} = Range(Visits)
           /\ Len(AliasItems) = Cardinality(Range(Visits))

\* C15 witness: a second, different declaration has been expanded; it holds
\* a macro invocation the first one held too, which is in the output with
\* an alias item of its own under another name.
C15_Witness ==
    /\ Returned
    /\ Len(done) = 1
    /\ done[1].input # input
    /\ \E m \in DOMAIN macro_types \cap DOMAIN done[1].macro_types :
           /\ macro_types[m] # done[1].macro_types[m]
           /\ \E i \in 1..Len(AliasItems) :
                  AliasItems[i].ty = m /\ AliasItems[i].ident = macro_types[m]

\* C16 (alias item shape): when the expansion has returned, every alias
\* item of the output carries the attribute doc(hidden) and nothing else,
\* has no visibility keyword, and its right-hand side is a macro invocation
\* of the declaration, path and argument tokens as written there, namely
\* the one registered under the item's name.
C16_AliasShape ==
    Returned =>
        \A i \in 1..Len(AliasItems) :
            LET it == AliasItems[i]
            IN  /\ it.attrs = <<"doc(hidden)">>
                /\ it.vis = "Inherited"
                /\ it.ty \in MacrosOf(OldTys)
                /\ it.ty \in DOMAIN macro_types
                /\ macro_types[it.ty] = it.ident

\* C16 witness: the output holds an alias item for Mac![({[U]}), "T", a],
\* hidden, not public, with the invocation's tokens as its right-hand side.
C16_Witness ==
    /\ Returned
    /\ \E i \in 1..Len(AliasItems) :
           /\ AliasItems[i].ty = MacDeep
           /\ AliasItems[i].ty.tokens = MacDeep.tokens
           /\ AliasItems[i].attrs = <<"doc(hidden)">>
           /\ AliasItems[i].vis = "Inherited"

\* C17 (defaults stripped): when the expansion has returned, no type or
\* const parameter of an alias item has a default or an equality token, and
\* each is a type or const parameter of the declaration with its name, its
\* bounds and its type.
C17_DefaultsStripped ==
    Returned =>
        \A i \in 1..Len(AliasItems) :
            \A j \in 1..Len(AliasItems[i].generics) :
                LET p == AliasItems[i].generics[j]
                IN  p.kind \in {"Type", "Const"} =>
                        /\ p.default = "None"
                        /\ ~p.eq_token
                        /\ \E q \in Range(input.generics) :
                               /\ q.kind = p.kind
                               /\ q.ident = p.ident
                               /\ q.bounds = p.bounds
                               /\ q.ty = p.ty

\* C17 witness: the alias of Mac![&'a [T; N]] declares T: Clone and
\* const N: usize, which the declaration wrote with the defaults i32 and 0.
C17_Witness ==
    /\ Returned
    /\ TyT \in Range(input.generics)
    /\ CoN \in Range(input.generics)
    /\ \E i \in 1..Len(AliasItems) :
           /\ AliasItems[i].ty = MacRef
           /\ TypeParam("T", <<Ident("Clone")>>, "None") \in Range(AliasItems[i].generics)
           /\ ConstParam("N", "usize", "None") \in Range(AliasItems[i].generics)

\* C18 (nested invocations are opaque): when the expansion has returned,
\* whatever is written like a macro invocation inside the argument tokens
\* of an aliased invocation is, unless it is also a field type of its own,
\* neither registered nor aliased, the alias's right-hand side is still the
\* whole outer invocation, and every generic parameter the inner invocation
\* mentions is a parameter of the outer invocation's alias.
C18_NestedOpaque ==
    Returned =>
        \A i \in 1..Len(AliasItems) :
            LET it == AliasItems[i]
            IN  /\ it.ty \in MacrosOf(OldTys)
                /\ \A inner \in Range(MacroShaped(it.ty.tokens)) :
                       /\ inner \notin MacrosOf(OldTys) =>
                              /\ inner \notin DOMAIN macro_types
                              /\ AliasesOf(AliasItems, inner) = {}
                       /\ \A p \in Range(input.generics) :
                              Occurs(p, inner.tokens) =>
                                  \E j \in 1..Len(it.generics) : SameParam(it.generics[j], p)

\* C18 witness: Mac![Inner![U]] has its alias, with the parameter U that
\* only Inner![U] mentions, and Inner![U] is not registered.
C18_Witness ==
    /\ Returned
    /\ TypeMacro("Inner", <<Ident("U")>>) \notin DOMAIN macro_types
    /\ \E i \in 1..Len(AliasItems) :
           /\ AliasItems[i].ty = MacNested
           /\ TyU \in Range(AliasItems[i].generics)

\* C19 (unsupported shapes): when the expansion has returned, a function
\* pointer, a trait object or a parenthesized type of the declaration is at
\* its place in the transformed declaration as it was written, and a macro
\* invocation found only inside such types is neither registered nor
\* aliased.
C19_UnsupportedUntouched ==
    Returned =>
        \A i \in 1..Len(OldTys) :
            \A pos \in Positions(OldTys[i]) :
                LET sub == SubtreeAt(OldTys[i], pos)
                IN  Unsupported(sub) =>
                        /\ SubtreeAt(NewTys[i], pos) = sub
                        /\ \A m \in MacrosAnywhere(sub) :
                               m \notin MacrosOf(OldTys) =>
                                   /\ m \notin DOMAIN macro_types
                                   /\ AliasesOf(AliasItems, m) = {}

\* C19 witness: (Mac![i32], fn(Other![T]) -> i32) has been rewritten: the
\* first element names an alias, the function pointer still holds
\* Other![T], which has no alias.
C19_Witness ==
    /\ Returned
    /\ Len(OldTys) = 1
    /\ OldTys[1] = TypeTuple(<<MacI, TypeBareFn(<<OtherT>>, Plain("i32"))>>)
    /\ NamesAlias(NewTys[1], <<<<0, 1>>>>, macro_types[MacI])
    /\ SubtreeAt(NewTys[1], <<<<0, 2>>>>) = TypeBareFn(<<OtherT>>, Plain("i32"))
    /\ OtherT \notin DOMAIN macro_types

RECURSIVE CharsOf(_)
\* the characters of a string
CharsOf(s) == IF s = "" THEN {} ELSE {Head(s)} \cup CharsOf(Tail(s))

\* what rand's Alphanumeric distribution ranges over
AlphanumericChars ==
    CharsOf("ABCDEFGHIJKLMNOPQRSTUVWXYZabcdefghijklmnopqrstuvwxyz0123456789")

\* the prefix followed by SuffixLen alphanumeric characters
WellFormedName(name) ==
    LET prefix == "__TypeMacroAlias"
    IN  /\ Len(name) = Len(prefix) + SuffixLen
        /\ SubSeq(name, 1, Len(prefix)) = prefix
        /\ \A i \in Len(prefix) + 1..Len(name) : SubSeq(name, i, i) \in AlphanumericChars

\* the macro invocations registered so far, in the order of their
\* registration, which is the order of the calls of the name generator
Registered == Dedup(SubSeq(Visits, 1, visited))

\* C20 (generated names): once the arguments are parsed, every registered
\* name is the prefix __TypeMacroAlias followed by exactly 12 alphanumeric
\* characters, and the names returned by two successive calls of the
\* generator differ.
C20_NameShapeAndFresh ==
    Parsed =>
        /\ \A m \in DOMAIN macro_types : WellFormedName(macro_types[m])
        /\ \A k \in 1..Len(Registered) - 1 :
               macro_types[Registered[k]] # macro_types[Registered[k + 1]]

\* C21 (used, type and const parameters): for every registered macro
\* invocation and every type or const parameter of the declaration, the
\* analyzer answers true exactly if an identifier token spelled like the
\* parameter is in the argument tokens at some depth of groups; a literal
\* never counts.
C21_UsedTypeConst ==
    \A m \in DOMAIN macro_types :
        \A g \in 1..Len(input.generics) :
            LET p == input.generics[g]
            IN  p.kind \in {"Type", "Const"} =>
                    (is_generic_param_used_in_token_stream(m.tokens, param_name(p))
                         <=> p.ident \in IdentsIn(m.tokens))

\* C21 witness: for Mac![({[U]}), "T", a] under the parameters T and U, the
\* alias has U, found under three groups, and has not T, which only the
\* string literal spells.
C21_Witness ==
    /\ Returned
    /\ TyT \in Range(input.generics)
    /\ \E i \in 1..Len(AliasItems) :
           /\ AliasItems[i].ty = MacDeep
           /\ TyU \in Range(AliasItems[i].generics)
           /\ \A j \in 1..Len(AliasItems[i].generics) : AliasItems[i].generics[j].ident # "T"

\* C22 (used, lifetime parameters): for every registered macro invocation
\* and every lifetime parameter of the declaration, the analyzer answers
\* true exactly if, at some depth of groups, a ' token is immediately
\* followed by an identifier token with the lifetime's name.
C22_UsedLifetime ==
    \A m \in DOMAIN macro_types :
        \A g \in 1..Len(input.generics) :
            LET p == input.generics[g]
            IN  p.kind = "Lifetime" =>
                    (is_generic_param_used_in_token_stream(m.tokens, param_name(p))
                         <=> p.ident \in LifetimesIn(m.tokens))

\* C22 witness: for Mac![&'static a] under the lifetime 'a and the type
\* parameter a, the alias has the type parameter and not the lifetime.
C22_Witness ==
    /\ Returned
    /\ LtA \in Range(input.generics)
    /\ \E i \in 1..Len(AliasItems) :
           /\ AliasItems[i].ty = MacStatic
           /\ AliasItems[i].generics = <<TyA>>

\* C23 (register is idempotent): a step of the find pass that reaches a
\* macro invocation equal to one already in the registry leaves the
\* registry as it is, so no name is made for it; and no step of a running
\* expansion removes an entry or gives an entry another name.
C23_RegisterIdempotent ==
    [][/\ (/\ pc = "running"
           /\ visited < Len(Visits)
           /\ visited' = visited + 1
           /\ Visits[visited + 1] \in DOMAIN macro_types) => macro_types' = macro_types
       /\ pc = "running" =>
              \A m \in DOMAIN macro_types :
                  /\ m \in DOMAIN macro_types'
                  /\ macro_types'[m] = macro_types[m]]_vars

\* C23 witness: the find pass has just reached a macro invocation for the
\* second time, and the registry has fewer entries than visits.
C23_Witness ==
    /\ pc = "running"
    /\ visited >= 2
    /\ Visits[visited] \in Range(SubSeq(Visits, 1, visited - 1))
    /\ Cardinality(DOMAIN macro_types) < visited

\* a field list with every type blanked
BlankFields(fields) ==
    [fields EXCEPT !.list = [i \in 1..Len(fields.list) |-> [fields.list[i] EXCEPT !.ty = Missing]]]

\* the declaration with every field type blanked: its name, its generic
\* parameters, its where-clause, its variants and its fields without types
WithoutTypes(decl) ==
    [decl EXCEPT !.data.fields = BlankFields(decl.data.fields),
                 !.data.variants =
                     [i \in 1..Len(decl.data.variants) |->
                         [decl.data.variants[i] EXCEPT
                             !.fields = BlankFields(decl.data.variants[i].fields)]]]

\* the field type holds a registered macro invocation where the passes go
HoldsRegistered(ty) ==
    \E pos \in MacroPositions(ty) : SubtreeAt(ty, pos) \in DOMAIN macro_types

\* C24 (frame): when the expansion has returned, the transformed
\* declaration is the input but for field types: same name, same generic
\* parameters with bounds and defaults, same where-clause, same variants
\* and same fields in the same order; and a field type that differs from
\* the input's holds a registered macro invocation.
C24_Frame ==
    Returned =>
        /\ WithoutTypes(Transformed) = WithoutTypes(input)
        /\ Len(NewTys) = Len(OldTys)
        /\ \A i \in 1..Len(OldTys) :
               i <= Len(NewTys) /\ NewTys[i] # OldTys[i] => HoldsRegistered(OldTys[i])

\* C24 witness: an enum with a where-clause and two variants has been
\* transformed; the field of the first variant was rewritten, the field of
\* the second is as it was.
C24_Witness ==
    /\ Returned
    /\ input.data.kind = "Enum"
    /\ input.where_clause # <<>>
    /\ Len(input.data.variants) = 2
    /\ Len(OldTys) = 2
    /\ NewTys[1] # OldTys[1]
    /\ NewTys[2] = OldTys[2]
    /\ TyT \in Range(Transformed.generics)

\* the struct with the named fields and the generics of a union
AsStruct(decl) == [decl EXCEPT !.data = DataStruct(decl.data.fields)]

\* C25 (unions): when the expansion of a union has returned, its find pass
\* reached what the find pass of the struct with the same named fields
\* reaches, in the same order, so the registry and the alias items are
\* those of the struct; and the union's fields in the output are the
\* struct's rewritten fields, written back into a union.
C25_UnionAsStruct ==
    Returned /\ input.data.kind = "Union" =>
        /\ Visits = collect_macro_types(AsStruct(input).data)
        /\ \A i \in 1..Len(AliasItems) :
               AliasItems[i] = type_alias(AliasItems[i].ty, macro_types[AliasItems[i].ty],
                                          AsStruct(input).generics)
        /\ Transformed.data =
               DataUnion(transform_input(AsStruct(input), macro_types).data.fields)

\* C25 witness: a union of two fields has been transformed; its first
\* field, Mac![T], names the alias, and the output is still a union.
C25_Witness ==
    /\ Returned
    /\ input.data.kind = "Union"
    /\ Len(OldTys) = 2
    /\ OldTys[1] = MacT
    /\ NamesAlias(NewTys[1], <<>>, macro_types[MacT])
    /\ Transformed.data.kind = "Union"

\* C26 (totality): every call of the macro returns: whatever the
\* declaration and the arguments, the parse of the arguments, the find
\* pass, the loop over the registry and the rewrite come to their end and
\* the output is there.
C26_Totality == (pc = "called") ~> (Returned /\ expanded # <<>>)

\* C26 witness: the second expansion of a crate has returned with its
\* output.
C26_Witness ==
    /\ Returned
    /\ Len(done) = 1
    /\ pending = <<>>
    /\ expanded # <<>>
    /\ expanded[Len(expanded)].item = "Declaration"

\* C27 (same positions): when the expansion has returned, no field type of
\* the transformed declaration holds a macro invocation at a position the
\* passes go to: not as the field type itself, not as a type argument of a
\* path, not as the element of an array, a slice, a pointer or a reference,
\* not as an element of a tuple.
C27_NoMacroLeft ==
    Returned => \A i \in 1..Len(NewTys) : MacroPositions(NewTys[i]) = {}

\* C27 witness: a field type held two macro invocations, one of them under
\* three wrappers, and the transformed field type holds none.
C27_Witness ==
    /\ Returned
    /\ Len(OldTys) = 1
    /\ \E pos \in MacroPositions(OldTys[1]) : Len(pos) = MaxDepth
    /\ Cardinality(MacroPositions(OldTys[1])) >= 2
    /\ MacroPositions(NewTys[1]) = {}

\* C28 (alias count): when the expansion has returned, the output holds as
\* many alias items as the field types of the declaration hold different
\* macro invocations at the positions the passes go to, and no two alias
\* items are for the same invocation.
C28_AliasCount ==
    Returned =>
        /\ Len(AliasItems) = Cardinality(MacrosOf(OldTys))
        /\ \A m \in MacrosOf(OldTys) : Cardinality(AliasesOf(AliasItems, m)) <= 1

\* C28 witness: three macro invocations in two fields, two of them equal,
\* gave two alias items.
C28_Witness ==
    /\ Returned
    /\ OldTys = <<TypeTuple(<<MacT, MacI>>), MacT>>
    /\ Len(AliasItems) = 2

\* the generic arguments written after the name of a path of one segment
UseArgs(ty) ==
    IF ty.k = "Path" /\ Len(ty.segments) = 1 THEN ty.segments[1].arguments.args ELSE <<>>

\* the use sites: a field, a position of a macro invocation in its type,
\* and an alias item of that invocation
UseSites ==
    UNION {UNION {{<<i, pos, a>> : a \in AliasesOf(AliasItems, SubtreeAt(OldTys[i], pos))} :
                     pos \in MacroPositions(OldTys[i])} :
              i \in 1..Len(OldTys)}

\* C29 (arity consistency), as claimed: at every rewritten use site the
\* generic arguments are the names of the alias's declared parameters, as
\* many and in the same order.
C29_SameParamsSameOrder ==
    Returned =>
        \A site \in UseSites :
            UseArgs(SubtreeAt(NewTys[site[1]], site[2]))
                = ArgsInOrder(AliasItems[site[3]].generics)

\* C29, amended: at every rewritten use site the generic arguments are as
\* many as the alias's declared parameters and name each of them once; the
\* lifetimes among them stand in the alias's order, and so do the type and
\* const parameters.
C29_SameArity ==
    Returned =>
        \A site \in UseSites :
            LET use == UseArgs(SubtreeAt(NewTys[site[1]], site[2]))
                params == AliasItems[site[3]].generics
            IN  /\ Len(use) = Len(params)
                /\ Range(use) = Range(ArgsInOrder(params))
                /\ SelectSeq(use, LAMBDA arg: arg.ga = "Lifetime")
                       = ArgsInOrder(SelectSeq(params, LAMBDA q: q.kind = "Lifetime"))
                /\ SelectSeq(use, LAMBDA arg: arg.ga # "Lifetime")
                       = ArgsInOrder(SelectSeq(params, LAMBDA q: q.kind # "Lifetime"))

\* C29 witness: under the parameters T, 'a, N the invocation Mac![&'a [T; N]]
\* was replaced by a path with the three arguments 'a, T, N, and its alias
\* declares T, 'a, N.
C29_Witness ==
    /\ Returned
    /\ input.generics = <<TyT, LtA, CoN>>
    /\ OldTys = <<MacRef>>
    /\ Len(AliasItems) = 1
    /\ Len(AliasItems[1].generics) = 3
    /\ AliasItems[1].generics[1].ident = "T"
    /\ UseArgs(NewTys[1]) = <<ArgLifetime("'a"), ArgType(Plain("T")), ArgType(Plain("N"))>>

\* C30 (aliases are self-contained): every generic parameter of the
\* declaration that occurs in the bounds kept on a parameter of an alias
\* item is itself a parameter of that alias item.
C30_SelfContained ==
    \A a \in 1..Len(type_aliases) :
        LET al == type_aliases[a]
        IN  \A j \in 1..Len(al.generics) :
                \A q \in Range(input.generics) :
                    Occurs(q, al.generics[j].bounds) =>
                        \E k \in 1..Len(al.generics) : SameParam(al.generics[k], q)
====
